---------------------------- MODULE Spec2Model ----------------------------
(***************************************************************************)
(* Model of the three analysis scripts of the repository:                  *)
(*   instrument_uncertainty_kde_analysis_v2.py   ("kde_v2")                *)
(*   volume_uncertainty_analysis_v11.py          ("vol_v11")               *)
(*   instrument_relative_error_overlay_v5.py     ("overlay_v5")            *)
(*                                                                         *)
(* The scripts compute with IEEE-754 binary floating point (numpy float64).*)
(* The model keeps the floating-point semantics (round to nearest, ties to *)
(* even, NaN and the infinities) but with a mantissa of Prec bits instead  *)
(* of 53 and an unbounded exponent, so that every arithmetic step of the   *)
(* code is an exactly computed, correctly rounded operation on integers.   *)
(***************************************************************************)
EXTENDS Integers, Sequences, FiniteSets, TLC

VARIABLES
  prog,           \* the script whose main runs: "kde_v2", "vol_v11", "overlay_v5"
  pc,             \* control point of main
  n_experiments,  \* len of the list the running loop goes through
  idx,            \* 1-based position of that loop in its list
  experiment,     \* the tuple the loop is at
  outcome,        \* what analyze_and_plot computed and drew for it
  stdout,         \* what was printed: the attempts, the error reports, the end
  n_saved,        \* figures written by plt.savefig so far
  group,          \* overlay_v5: the group generate_overlay_plots works on
  experiments_in_group,  \* overlay_v5: the tuples of the group read so far
  results,        \* overlay_v5: the dict results, in insertion order
  all_relative_errors,   \* overlay_v5: the list of that name
  x_lim,          \* overlay_v5: (x_min, x_max) of the group, once computed
  ax_t,           \* overlay_v5: what figure A shows
  ax_kde          \* overlay_v5: what figure B shows

overlay_vars ==
  <<group, experiments_in_group, results, all_relative_errors, x_lim, ax_t, ax_kde>>
vars == <<prog, pc, n_experiments, idx, experiment, outcome, stdout, n_saved,
          group, experiments_in_group, results, all_relative_errors, x_lim,
          ax_t, ax_kde>>

(***************************************************************************)
(* Bounds of the model.                                                    *)
(***************************************************************************)
Prec == 4          \* mantissa bits of the model's floating point (code: 53)
MaxN == 3          \* longest sample (number of weights of one instrument)
MaxBatch == 2      \* longest experiment list handed to main
NumPoints == 3     \* points of x_curve (code: np.linspace(x_min, x_max, 1000))

(***************************************************************************)
(* Floating point.  A value is <<k, m, e>>:                                *)
(*   k = 0  finite, value m * 2^e, with m = 0 /\ e = 0 or                  *)
(*          2^(Prec-1) <= |m| < 2^Prec (normalised, so equal values have   *)
(*          equal representations);                                        *)
(*   k = 1  +inf;   k = -1  -inf;   k = 2  NaN.                            *)
(***************************************************************************)
RECURSIVE Pow2(_)
Pow2(n) == IF n <= 0 THEN 1 ELSE 2 * Pow2(n - 1)

RECURSIVE BitLen(_)
BitLen(n) == IF n <= 0 THEN 0 ELSE 1 + BitLen(n \div 2)

Abs(n) == IF n < 0 THEN -n ELSE n
Sgn(n) == IF n < 0 THEN -1 ELSE IF n > 0 THEN 1 ELSE 0
Min2(a, b) == IF a <= b THEN a ELSE b
Max2(a, b) == IF a >= b THEN a ELSE b

NaN == <<2, 0, 0>>
PInf == <<1, 0, 0>>
NInf == <<-1, 0, 0>>
Zero == <<0, 0, 0>>

IsNaN(x) == x[1] = 2
IsInf(x) == x[1] = 1 \/ x[1] = -1
IsFinite(x) == x[1] = 0
IsZero(x) == x[1] = 0 /\ x[2] = 0
FSign(x) == IF x[1] = 0 THEN Sgn(x[2]) ELSE IF x[1] = 2 THEN 0 ELSE x[1]

\* n * 2^e rounded to Prec bits, round to nearest, ties to even.
Round(n, e) ==
  IF n = 0 THEN Zero
  ELSE LET a == Abs(n)
           s == Sgn(n)
           L == BitLen(a)
       IN IF L <= Prec
          THEN <<0, s * a * Pow2(Prec - L), e - (Prec - L)>>
          ELSE LET k == L - Prec
                   q == a \div Pow2(k)
                   r == a % Pow2(k)
                   h == Pow2(k - 1)
                   up == r > h \/ (r = h /\ q % 2 = 1)
                   q1 == IF up THEN q + 1 ELSE q
               IN IF q1 = Pow2(Prec)
                  THEN <<0, s * Pow2(Prec - 1), e + k + 1>>
                  ELSE <<0, s * q1, e + k>>

\* (n / d) * 2^e rounded to Prec bits, d > 0: the quotient is taken with
\* Prec + 2 bits at least and a sticky bit for the remainder.
RoundRat(n, d, e) ==
  IF n = 0 THEN Zero
  ELSE LET a == Abs(n)
           sh == Max2(0, Prec + 2 + BitLen(d) - BitLen(a))
           q == (a * Pow2(sh)) \div d
           r == (a * Pow2(sh)) % d
           n2 == 2 * q + (IF r = 0 THEN 0 ELSE 1)
       IN Round(Sgn(n) * n2, e - sh - 1)

\* A Python literal or integer as a float: F(3) is 3.0, FRat(1, 6) is 1/6.
F(n) == Round(n, 0)
FRat(n, d) == RoundRat(n, d, 0)

FNeg(x) == IF x[1] = 2 THEN NaN ELSE <<-x[1], -x[2], x[3]>>

\* Order of two finite values.  Normalised mantissas make the exponent decide.
FinLt(x, y) ==
  LET sx == Sgn(x[2])
      sy == Sgn(y[2])
  IN IF sx # sy THEN sx < sy
     ELSE IF sx = 0 THEN FALSE
     ELSE IF sx > 0
          THEN x[3] < y[3] \/ (x[3] = y[3] /\ x[2] < y[2])
          ELSE x[3] > y[3] \/ (x[3] = y[3] /\ x[2] < y[2])

\* x < y, x <= y, x == y as IEEE comparisons: FALSE when either is NaN.
FLt(x, y) ==
  IF IsNaN(x) \/ IsNaN(y) THEN FALSE
  ELSE IF x[1] # 0 \/ y[1] # 0 THEN x[1] < y[1]
  ELSE FinLt(x, y)
FEq(x, y) == ~IsNaN(x) /\ ~IsNaN(y) /\ x = y
FLe(x, y) == FLt(x, y) \/ FEq(x, y)

FAdd(x, y) ==
  IF IsNaN(x) \/ IsNaN(y) THEN NaN
  ELSE IF IsInf(x) /\ IsInf(y) THEN (IF x[1] = y[1] THEN x ELSE NaN)
  ELSE IF IsInf(x) THEN x
  ELSE IF IsInf(y) THEN y
  ELSE IF IsZero(x) THEN y
  ELSE IF IsZero(y) THEN x
  ELSE IF x[3] - y[3] > Prec + 2 THEN x
  ELSE IF y[3] - x[3] > Prec + 2 THEN y
  ELSE LET e == Min2(x[3], y[3])
       IN Round(x[2] * Pow2(x[3] - e) + y[2] * Pow2(y[3] - e), e)

FSub(x, y) == FAdd(x, FNeg(y))

FMul(x, y) ==
  IF IsNaN(x) \/ IsNaN(y) THEN NaN
  ELSE IF IsInf(x) \/ IsInf(y)
       THEN (IF IsZero(x) \/ IsZero(y) THEN NaN
             ELSE IF FSign(x) = FSign(y) THEN PInf ELSE NInf)
  ELSE Round(x[2] * y[2], x[3] + y[3])

\* numpy division: x / 0 is +-inf (nan for 0 / 0) with a RuntimeWarning,
\* never an exception.
FDiv(x, y) ==
  IF IsNaN(x) \/ IsNaN(y) THEN NaN
  ELSE IF IsInf(x)
       THEN (IF IsInf(y) THEN NaN
             ELSE IF FSign(x) * (IF FSign(y) < 0 THEN -1 ELSE 1) > 0
                  THEN PInf ELSE NInf)
  ELSE IF IsInf(y) THEN Zero
  ELSE IF IsZero(y)
       THEN (IF IsZero(x) THEN NaN ELSE IF FSign(x) > 0 THEN PInf ELSE NInf)
  ELSE RoundRat(Sgn(y[2]) * x[2], Abs(y[2]), x[3] - y[3])

\* Largest q with q * q <= n, by binary digits from bit b down.
RECURSIVE ISqrtFrom(_, _, _)
ISqrtFrom(n, b, acc) ==
  IF b = 0 THEN acc
  ELSE IF (acc + b) * (acc + b) <= n
       THEN ISqrtFrom(n, b \div 2, acc + b)
       ELSE ISqrtFrom(n, b \div 2, acc)

\* np.sqrt: correctly rounded; nan for a negative argument.
FSqrt(x) ==
  IF IsNaN(x) THEN NaN
  ELSE IF x[1] = 1 THEN PInf
  ELSE IF x[1] = -1 THEN NaN
  ELSE IF x[2] < 0 THEN NaN
  ELSE IF x[2] = 0 THEN Zero
  ELSE LET sh == Prec + 4 + ((x[3] + Prec) % 2)
           \* m1 * 4^e1 with m1 of 2 * Prec + 3 bits at least
           m1 == x[2] * Pow2(sh)
           e1 == (x[3] - sh) \div 2
           q == ISqrtFrom(m1, Pow2(Prec + 3), 0)
           n2 == 2 * q + (IF q * q = m1 THEN 0 ELSE 1)
       IN Round(n2, e1 - 1)

\* np.floor and np.ceil of a finite value (nan and inf are returned as is).
FFloor(x) ==
  IF x[1] # 0 THEN x
  ELSE IF x[3] >= 0 THEN x
  ELSE IF -x[3] > Prec THEN (IF x[2] < 0 THEN F(-1) ELSE Zero)
  ELSE Round(x[2] \div Pow2(-x[3]), 0)
FCeil(x) == FNeg(FFloor(FNeg(x)))

(***************************************************************************)
(* numpy / scipy / matplotlib calls the scripts make, on sequences of      *)
(* floats.  Only what the scripts observe is modelled: the value returned, *)
(* or the exception class raised.                                          *)
(***************************************************************************)
RECURSIVE SumFrom(_, _, _)
SumFrom(a, i, acc) ==
  IF i > Len(a) THEN acc ELSE SumFrom(a, i + 1, FAdd(acc, a[i]))

\* np.sum of fewer than 8 elements: one accumulator, left to right.
np_sum(a) == SumFrom(a, 1, Zero)

\* np.mean: the sum divided by the count (nan for an empty array).
np_mean(a) == FDiv(np_sum(a), F(Len(a)))

SqDev(a, m) == [i \in 1..Len(a) |-> FMul(FSub(a[i], m), FSub(a[i], m))]

\* np.std(a, ddof): sqrt(sum((a - mean)^2) / max(N - ddof, 0)).
np_std(a, ddof) ==
  FSqrt(FDiv(np_sum(SqDev(a, np_mean(a))), F(Max2(Len(a) - ddof, 0))))

\* np.cov(dataset, bias=False, aweights=weights) of one variable with the
\* weights w = 1/n each, as gaussian_kde calls it:
\*   avg = sum(a * w) / sum(w);  X = a - avg;  c = dot(X, X * w)
\*   fact = sum(w) - ddof * sum(w * w) / sum(w), 0.0 when not positive
\*   c *= 1 / fact
\* (w and avg are bound as values of one-element sets, so that each is
\* computed once.)
cov_average(a, w) ==
  FDiv(np_sum([i \in 1..Len(a) |-> FMul(a[i], w)]),
       np_sum([i \in 1..Len(a) |-> w]))

cov_fact(n, w) ==
  LET w_sum == np_sum([i \in 1..n |-> w])
      fact == FSub(w_sum, FDiv(FMul(F(1), np_sum([i \in 1..n |-> FMul(w, w)])), w_sum))
  IN IF FLe(fact, Zero) THEN Zero ELSE fact

np_cov(a) ==
  CHOOSE c \in UNION {
      { FMul(np_sum([i \in 1..Len(a) |->
                       FMul(X[i], FMul(X[i], w))]),
             FDiv(F(1), cov_fact(Len(a), w))) :
          X \in {[i \in 1..Len(a) |-> FSub(a[i], avg)]} } :
        <<w, avg>> \in { <<w0, cov_average(a, w0)>> :
                           w0 \in {FDiv(F(1), F(Len(a)))} } } : TRUE

np_min(a) ==
  LET RECURSIVE MinFrom(_, _)
      MinFrom(i, acc) ==
        IF i > Len(a) THEN acc
        ELSE IF IsNaN(acc) \/ IsNaN(a[i]) THEN NaN
        ELSE MinFrom(i + 1, IF FLt(a[i], acc) THEN a[i] ELSE acc)
  IN MinFrom(2, a[1])

np_max(a) ==
  LET RECURSIVE MaxFrom(_, _)
      MaxFrom(i, acc) ==
        IF i > Len(a) THEN acc
        ELSE IF IsNaN(acc) \/ IsNaN(a[i]) THEN NaN
        ELSE MaxFrom(i + 1, IF FLt(acc, a[i]) THEN a[i] ELSE acc)
  IN MaxFrom(2, a[1])

\* Python's builtin max over an iterable: keeps the first item and replaces
\* it only when a later item compares greater, so a NaN that comes first
\* stays and a NaN that comes later is ignored.
py_max(a) ==
  LET RECURSIVE PyMaxFrom(_, _)
      PyMaxFrom(i, acc) ==
        IF i > Len(a) THEN acc
        ELSE PyMaxFrom(i + 1, IF FLt(acc, a[i]) THEN a[i] ELSE acc)
  IN PyMaxFrom(2, a[1])

AllFinite(a) == \A i \in 1..Len(a) : IsFinite(a[i])

(***************************************************************************)
(* scipy.stats.ttest_1samp(a, popmean, alternative='two-sided').           *)
(*   d = mean(a) - popmean; v = var(a, ddof=1); t = d / sqrt(v / n)        *)
(* with the division under errstate(ignore): sigma = 0 gives +-inf, or nan *)
(* when d = 0 too; nothing is raised.  scipy's var is the second central   *)
(* moment times n / (n - ddof).                                            *)
(* The p-value 2 * sf(|t|, df) is kept exact where it is a float the       *)
(* Student distribution fixes (1.0 at t = 0, 0.0 at |t| = inf, nan for a   *)
(* nan t or df <= 0); elsewhere it is kept in the form <<|t|, df>> and     *)
(* compared through the distribution's two-sided critical values.          *)
(***************************************************************************)
scipy_var(a) ==
  FMul(np_mean(SqDev(a, np_mean(a))), FDiv(F(Len(a)), F(Len(a) - 1)))

FAbs(x) == IF FSign(x) < 0 THEN FNeg(x) ELSE x

\* The p-value of alternative='greater': sf(t, df), 0.5 at t = 0.
t_sf_greater(t, df) ==
  IF IsNaN(t) \/ df <= 0 THEN [exact |-> TRUE, val |-> NaN, abs_t |-> NaN, df |-> df]
  ELSE IF IsZero(t) THEN [exact |-> TRUE, val |-> FRat(1, 2), abs_t |-> Zero, df |-> df]
  ELSE IF IsInf(t)
       THEN [exact |-> TRUE, val |-> IF FSign(t) > 0 THEN Zero ELSE F(1),
             abs_t |-> PInf, df |-> df]
  ELSE [exact |-> FALSE, val |-> NaN, abs_t |-> FAbs(t), df |-> df]

t_sf2(t, df) ==
  IF IsNaN(t) \/ df <= 0 THEN [exact |-> TRUE, val |-> NaN, abs_t |-> NaN, df |-> df]
  ELSE IF IsZero(t) THEN [exact |-> TRUE, val |-> F(1), abs_t |-> Zero, df |-> df]
  ELSE IF IsInf(t) THEN [exact |-> TRUE, val |-> Zero, abs_t |-> PInf, df |-> df]
  ELSE [exact |-> FALSE, val |-> NaN, abs_t |-> FAbs(t), df |-> df]

ttest_1samp(a, popmean) ==
  LET n == Len(a)
      d == FSub(np_mean(a), popmean)
      v == scipy_var(a)
      denom == FSqrt(FDiv(v, F(n)))
      t == FDiv(d, denom)
  IN [t_statistic |-> t, p_value |-> t_sf2(t, n - 1)]

\* Two-sided 5% critical values of Student's t, t_{0.975, df}, times 1000.
TCrit1000(df) ==
  CASE df = 1 -> 12706 [] df = 2 -> 4303 [] df = 3 -> 3182 [] df = 4 -> 2776
    [] df = 5 -> 2571 [] df = 6 -> 2447 [] OTHER -> 2365

\* "not (p_value >= alpha)": differs from p_value < alpha for nan only.
p_not_at_least_alpha(p) ==
  IF p.exact THEN ~FLe(FRat(5, 100), p.val)
  ELSE ~FLe(p.abs_t, FRat(TCrit1000(p.df), 1000))

\* p_value < alpha for alpha = 0.05: FALSE for nan, like every comparison.
p_below_alpha(p) ==
  IF p.exact THEN FLt(p.val, FRat(5, 100))
  ELSE FLt(FRat(TCrit1000(p.df), 1000), p.abs_t)

\* int(x) of a finite float: truncation toward zero.
FTruncInt(x) ==
  IF x[3] >= 0 THEN x[2] * Pow2(x[3])
  ELSE IF -x[3] > Prec THEN 0
  ELSE Sgn(x[2]) * (Abs(x[2]) \div Pow2(-x[3]))

\* The arrays np.partition(a, (k1, k2)) may return (k1, k2 zero-based): a
\* permutation of a in which the elements at k1 and k2 are in their sorted
\* place, nothing before them is greater and nothing after them is
\* smaller.  The order of the others is not specified by numpy.
np_partition(a, k1, k2) ==
  LET n == Len(a)
      InPlace(b, k) == /\ \A i \in 1..k : FLe(b[i], b[k + 1])
                       /\ \A i \in (k + 2)..n : FLe(b[k + 1], b[i])
  IN { b \in { [i \in 1..n |-> a[f[i]]] :
                 f \in { g \in [1..n -> 1..n] :
                           \A i, j \in 1..n : i # j => g[i] # g[j] } } :
         InPlace(b, k1) /\ InPlace(b, k2) }

\* stats.trim_mean(a, proportiontocut) where atmp is what np.partition
\* returned: [raised, val].  ValueError only when the cut is too big.
lowercut(a, proportiontocut) == FTruncInt(FMul(proportiontocut, F(Len(a))))
uppercut(a, proportiontocut) == Len(a) - lowercut(a, proportiontocut)

trim_mean(a, proportiontocut, atmp) ==
  IF Len(a) = 0 THEN [raised |-> "none", val |-> NaN]
  ELSE IF lowercut(a, proportiontocut) > uppercut(a, proportiontocut)
       THEN [raised |-> "ValueError", val |-> NaN]
  ELSE [raised |-> "none",
        val |-> np_mean(SubSeq(atmp, lowercut(a, proportiontocut) + 1,
                                 uppercut(a, proportiontocut)))]

\* np.linspace(start, stop, num), num > 1, end point included.
np_linspace(start, stop, num) ==
  LET div == F(num - 1)
      delta == FSub(stop, start)
      step == FDiv(delta, div)
      y(i) == IF FEq(step, Zero) THEN FMul(FDiv(F(i), div), delta)
              ELSE FMul(F(i), step)
  IN [j \in 1..num |-> IF j = num THEN stop ELSE FAdd(y(j - 1), start)]

\* gaussian_kde(dataset): ValueError for fewer than two elements,
\* LinAlgError when the Cholesky factor of the scaled covariance does not
\* exist (the covariance is not positive), else the estimator.
gaussian_kde(dataset) ==
  IF Len(dataset) <= 1 THEN "ValueError"
  ELSE IF ~FLt(Zero, np_cov(dataset)) THEN "LinAlgError"
  ELSE "ok"

\* ax.hist(data, bins='auto'): np.histogram refuses a range that is not
\* finite.  ax.set_xlim refuses a limit that is NaN or infinite.
hist_raises(data) == ~AllFinite(data)
set_xlim_raises(lo, hi) == ~IsFinite(lo) \/ ~IsFinite(hi)

\* stats.t.pdf(x, df, loc, scale) is a number where df > 0 and scale > 0 and
\* nan elsewhere; it never raises.
t_pdf_defined(df, scale) == df > 0 /\ FLt(Zero, scale)

(***************************************************************************)
(* Inputs.  An experiment is the tuple main hands to the analysis:         *)
(* (instrument_name, target_volume, density, weights); is_array tells a    *)
(* numpy array from a plain Python list.  The sets hold valid records and  *)
(* records that break the input contract (one weight only, density or      *)
(* target not positive).                                                   *)
(***************************************************************************)
WeightVals == {F(12), F(14)}
Samples == UNION {[1..n -> WeightVals] : n \in 1..MaxN}
Targets == {F(0), F(12), F(13)}
Densities == {F(-1), F(0), F(1), F(2)}
Experiments(names) ==
  [name : names, target : Targets, density : Densities,
   weights : Samples, is_array : BOOLEAN]

Absent == [avail |-> FALSE, val |-> NaN]
Some(v) == [avail |-> TRUE, val |-> v]

\* raw_weights / density, elementwise.
calculated_volumes(raw_weights, density) ==
  [i \in 1..Len(raw_weights) |-> FDiv(raw_weights[i], density)]

\* relative_error = ((mu - target_volume) / target_volume) * 100.0
relative_error(mu, target_volume) ==
  FMul(FDiv(FSub(mu, target_volume), target_volume), F(100))

\* x_min = mu - 4*sigma, x_max = mu + 4*sigma
x_min(mu, sigma) == FSub(mu, FMul(F(4), sigma))
x_max(mu, sigma) == FAdd(mu, FMul(F(4), sigma))

\* sigma = np.std(calculated_volumes, ddof=1), as each script writes it.
sigma_kde_v2(vols) == np_std(vols, 1)
sigma_vol_v11_ddof0(vols) == np_std(vols, 0)
sigma_vol_v11(vols) == np_std(vols, 1)

\* The six ax.axvline(mu +- k*sigma) markers.
sigma_markers(mu, sigma) ==
  { [label |-> "sigma", x |-> FAdd(mu, FMul(F(k), sigma))] : k \in 1..3 }
    \cup { [label |-> "sigma", x |-> FSub(mu, FMul(F(k), sigma))] : k \in 1..3 }

(***************************************************************************)
(* analyze_and_plot of instrument_uncertainty_kde_analysis_v2.py.          *)
(* atmp is the array np.partition returned inside trim_mean and            *)
(* kde_peak_idx the arg-max of the evaluated density (the density itself   *)
(* is not computed: any index of x_curve may be its arg-max).  The result  *)
(* records what had been computed and drawn when the function returned or  *)
(* raised.                                                                 *)
(***************************************************************************)
analyze_and_plot_kde(target_volume, density, raw_weights, atmp, kde_peak_idx) ==
  LET vols == calculated_volumes(raw_weights, density)
      tt == ttest_1samp(vols, target_volume)
      n == Len(vols)
      mu == np_mean(vols)
      sigma == sigma_kde_v2(vols)
      tm == trim_mean(vols, FRat(1, 6), atmp)
      trimmed_mean == IF tm.raised = "none" THEN Some(tm.val) ELSE Absent
      lo == x_min(mu, sigma)
      hi == x_max(mu, sigma)
      x_curve == np_linspace(lo, hi, NumPoints)
      hist_err == hist_raises(vols)
      kde == IF hist_err THEN "not_reached" ELSE gaussian_kde(vols)
      kde_peak_x == IF kde = "ok" THEN Some(x_curve[kde_peak_idx]) ELSE Absent
      xlim_err == ~hist_err /\ set_xlim_raises(lo, hi)
      raised == IF hist_err \/ xlim_err THEN "ValueError" ELSE "none"
      markers ==
        IF hist_err THEN {}
        ELSE {[label |-> "mu", x |-> mu], [label |-> "target", x |-> target_volume]}
             \cup (IF trimmed_mean.avail
                   THEN {[label |-> "trimmed", x |-> trimmed_mean.val]} ELSE {})
             \cup (IF kde_peak_x.avail
                   THEN {[label |-> "kde_peak", x |-> kde_peak_x.val]} ELSE {})
             \cup sigma_markers(mu, sigma)
  IN [raised |-> raised,
      calculated_volumes |-> vols,
      t_statistic |-> tt.t_statistic,
      p_value |-> tt.p_value,
      significant |-> p_below_alpha(tt.p_value),
      n |-> n, df |-> n - 1, mu |-> mu, sigma |-> sigma,
      trimmed_mean |-> trimmed_mean,
      relative_error |-> relative_error(mu, target_volume),
      figure_created |-> TRUE,
      x_min |-> lo, x_max |-> hi,
      hist_drawn |-> ~hist_err,
      t_curve_drawn |-> ~hist_err,
      t_curve_defined |-> ~hist_err /\ t_pdf_defined(n - 1, sigma),
      kde |-> kde,
      kde_curve_drawn |-> kde = "ok",
      kde_peak_x |-> kde_peak_x,
      markers |-> markers,
      xlim_set |-> raised = "none",
      saved |-> raised = "none"]

(***************************************************************************)
(* analyze_and_plot of volume_uncertainty_analysis_v11.py: the same        *)
(* statistics, no trimmed mean and no KDE.                                 *)
(***************************************************************************)
analyze_and_plot_vol(target_volume, density, raw_weights) ==
  LET vols == calculated_volumes(raw_weights, density)
      tt == ttest_1samp(vols, target_volume)
      n == Len(vols)
      mu == np_mean(vols)
      sigma == sigma_vol_v11(vols)
      lo == x_min(mu, sigma)
      hi == x_max(mu, sigma)
      hist_err == hist_raises(vols)
      xlim_err == ~hist_err /\ set_xlim_raises(lo, hi)
      raised == IF hist_err \/ xlim_err THEN "ValueError" ELSE "none"
      markers ==
        IF hist_err THEN {}
        ELSE {[label |-> "mu", x |-> mu], [label |-> "target", x |-> target_volume]}
             \cup sigma_markers(mu, sigma)
  IN [raised |-> raised,
      calculated_volumes |-> vols,
      t_statistic |-> tt.t_statistic,
      p_value |-> tt.p_value,
      significant |-> p_below_alpha(tt.p_value),
      n |-> n, df |-> n - 1, mu |-> mu, sigma |-> sigma,
      trimmed_mean |-> Absent,
      relative_error |-> relative_error(mu, target_volume),
      figure_created |-> TRUE,
      x_min |-> lo, x_max |-> hi,
      hist_drawn |-> ~hist_err,
      t_curve_drawn |-> ~hist_err,
      t_curve_defined |-> ~hist_err /\ t_pdf_defined(n - 1, sigma),
      kde |-> "not_reached",
      kde_curve_drawn |-> FALSE,
      kde_peak_x |-> Absent,
      markers |-> markers,
      xlim_set |-> raised = "none",
      saved |-> raised = "none"]

(***************************************************************************)
(* main of the two single-instrument scripts:                              *)
(*     for experiment in all_experiments:                                  *)
(*         try:                                                            *)
(*             name, target, density, weights = experiment                 *)
(*             analyze_and_plot(name, target, density, weights)            *)
(*         except Exception as e:                                          *)
(*             print(error)                                                *)
(*     print(all done)                                                     *)
(* The elements of all_experiments are drawn when the loop reaches them.   *)
(* The locals of analyze_and_plot (outcome) are visible from its return or *)
(* raise until main goes back to the loop header.                          *)
(***************************************************************************)
\* Every result analyze_and_plot of kde_v2 can reach for experiment e: one
\* for each array np.partition may return and each arg-max of the density.
kde_outcomes(e) ==
  LET vols == calculated_volumes(e.weights, e.density)
      lc == lowercut(vols, FRat(1, 6))
      uc == uppercut(vols, FRat(1, 6))
  IN { analyze_and_plot_kde(e.target, e.density, e.weights, atmp, kde_peak_idx) :
         atmp \in np_partition(vols, lc, IF uc > lc THEN uc - 1 ELSE lc),
         kde_peak_idx \in 1..NumPoints }

vol_outcomes(e) == {analyze_and_plot_vol(e.target, e.density, e.weights)}

\* The results, tabulated once per experiment as pairs <<e, results of e>>.
SingleExperiments == Experiments({"pipette_1mL"})
kde_v2_results == { <<e, kde_outcomes(e)>> : e \in SingleExperiments }
vol_v11_results == { <<e, vol_outcomes(e)>> : e \in SingleExperiments }
ResultsOf(table, e) == (CHOOSE p \in table : p[1] = e)[2]

None == <<>>

SingleProgs == {"kde_v2", "vol_v11"}

Init ==
  /\ prog \in SingleProgs
  /\ n_experiments \in 1..MaxBatch
  /\ pc = "for"
  /\ idx = 0
  /\ experiment = None
  /\ outcome = None
  /\ stdout = <<>>
  /\ n_saved = 0
  /\ group = None
  /\ experiments_in_group = None
  /\ results = None
  /\ all_relative_errors = None
  /\ x_lim = None
  /\ ax_t = None
  /\ ax_kde = None

\* for experiment in all_experiments: the next tuple is bound.
ForNext ==
  /\ pc = "for"
  /\ idx < n_experiments
  /\ \E e \in SingleExperiments : experiment' = e
  /\ idx' = idx + 1
  /\ pc' = "call"
  /\ UNCHANGED <<prog, n_experiments, outcome, stdout, n_saved, overlay_vars>>

\* A handler that catches the KDE error classes only, like the inner try.
except_LinAlgError_only(exc) == exc = "LinAlgError"

\* except Exception: every exception the analysis raises (ValueError,
\* LinAlgError, TypeError) is a subclass of Exception.
except_Exception(exc) == exc \in {"ValueError", "LinAlgError", "TypeError"}

Called(o) ==
  /\ outcome' = o
  /\ stdout' = Append(stdout, [ev |-> "analyze", i |-> idx])
  /\ n_saved' = IF o.saved THEN n_saved + 1 ELSE n_saved
  /\ pc' = IF o.raised = "none" THEN "returned" ELSE "raised"
  /\ UNCHANGED <<prog, n_experiments, idx, experiment, overlay_vars>>

\* analyze_and_plot(name, target, density, weights) of kde_v2 runs to its
\* return or to the statement that raises.
AnalyzeKde ==
  /\ pc = "call"
  /\ prog = "kde_v2"
  /\ \E o \in ResultsOf(kde_v2_results, experiment) : Called(o)

\* The same for vol_v11.
AnalyzeVol ==
  /\ pc = "call"
  /\ prog = "vol_v11"
  /\ \E o \in ResultsOf(vol_v11_results, experiment) : Called(o)

\* analyze_and_plot returned: back to the loop header.
Return ==
  /\ pc = "returned"
  /\ pc' = "for"
  /\ experiment' = None
  /\ outcome' = None
  /\ UNCHANGED <<prog, n_experiments, idx, stdout, n_saved, overlay_vars>>

\* analyze_and_plot raised: the except clause of main reports it and the
\* loop goes on; an exception it does not catch ends the program.
Except ==
  /\ pc = "raised"
  /\ IF except_Exception(outcome.raised)
     THEN /\ stdout' = Append(stdout, [ev |-> "error", i |-> idx])
          /\ pc' = "for"
     ELSE /\ stdout' = Append(stdout, [ev |-> "traceback", i |-> idx])
          /\ pc' = "crashed"
  /\ experiment' = None
  /\ outcome' = None
  /\ UNCHANGED <<prog, n_experiments, idx, n_saved, overlay_vars>>

\* The loop is exhausted: print("--- all analyses done ---").
Finish ==
  /\ pc = "for"
  /\ idx = n_experiments
  /\ stdout' = Append(stdout, [ev |-> "done", i |-> 0])
  /\ pc' = "done"
  /\ UNCHANGED <<prog, n_experiments, idx, experiment, outcome, n_saved, overlay_vars>>

Next == ForNext \/ AnalyzeKde \/ AnalyzeVol \/ Return \/ Except \/ Finish

Spec == Init /\ [][Next]_vars

\* Python runs the next statement: the interpreter never stops while a
\* statement is left to run.
FairSpec == Spec /\ WF_vars(Next)

(***************************************************************************)
(* instrument_relative_error_overlay_v5.py.  main splits all_experiments   *)
(* by instrument name into the burette group and the pipette group and     *)
(* calls generate_overlay_plots on each, with no try around either call;   *)
(* generate_overlay_plots has a try around the KDE of figure B only.  An   *)
(* exception raised anywhere else ends the program with a traceback.       *)
(* The tuples of a group are drawn when the loop reaches them.             *)
(***************************************************************************)
Burettes == {"burette_1mL", "burette_10mL"}
Pipettes == {"pipette_1mL", "pipette_10mL"}
GroupNames(g) == IF g = 1 THEN Burettes ELSE Pipettes

\* The tuples a group may hold.  weights is a numpy array, or a Python list:
\* a list fails at the first operation whatever it holds, so one list
\* record per name is enough.
OverlaySamples ==
  {<<F(12)>>, <<F(12), F(12)>>, <<F(12), F(14)>>, <<F(14), F(12)>>}
OverlayTargets == {F(0), F(12), F(13)}
OverlayDensities == {F(2)}
OverlayExperiments(g) ==
  [name : GroupNames(g), target : OverlayTargets, density : OverlayDensities,
   weights : OverlaySamples, is_array : {TRUE}]
  \cup [name : GroupNames(g), target : {F(12)}, density : {F(2)},
        weights : {<<F(12), F(14)>>}, is_array : {FALSE}]

\* abs_volumes = weights / density
\* rel_volumes = (abs_volumes / target) * 100.0
\* rel_errors = rel_volumes - 100.0
rel_errors(weights, density, target) ==
  [i \in 1..Len(weights) |->
     FSub(FMul(FDiv(FDiv(weights[i], density), target), F(100)), F(100))]

\* The value stored under results[name], with its key.
results_entry(e) ==
  LET re == rel_errors(e.weights, e.density, e.target)
  IN [name |-> e.name,
      relative_errors |-> re,
      mu_err |-> np_mean(re),
      sigma_err |-> np_std(re, 1),
      df |-> Len(re) - 1]

\* results[name] = {...}: a dict keeps one value per key; a key that is
\* already there keeps its place and gets the new value.
dict_setitem(d, r) ==
  IF \E k \in 1..Len(d) : d[k].name = r.name
  THEN [k \in 1..Len(d) |-> IF d[k].name = r.name THEN r ELSE d[k]]
  ELSE Append(d, r)

\* overall_min, overall_max, max_sigma, then x_min and x_max rounded
\* outwards to one decimal.
overlay_x_lim(all_errors, res) ==
  LET overall_min == np_min(all_errors)
      overall_max == np_max(all_errors)
      max_sigma == IF res # <<>>
                   THEN py_max([k \in 1..Len(res) |-> res[k].sigma_err])
                   ELSE F(1)
      lo == FSub(overall_min, FMul(F(4), max_sigma))
      hi == FAdd(overall_max, FMul(F(4), max_sigma))
  IN [x_min |-> FDiv(FFloor(FMul(lo, F(10))), F(10)),
      x_max |-> FDiv(FCeil(FMul(hi, F(10))), F(10))]

\* Figure A: per entry of results the t curve and the annotation of its
\* peak at x = mu_err, then the 0% line.
figure_t(res) ==
  [curves |-> [k \in 1..Len(res) |->
                 [name |-> res[k].name,
                  peak_x |-> res[k].mu_err,
                  defined |-> t_pdf_defined(res[k].df, res[k].sigma_err)]],
   zero_line |-> Zero]

\* Figure B: per entry of results the KDE curve with its peak marked, or,
\* when gaussian_kde raised LinAlgError or ValueError, an empty curve
\* labelled as failed; then the 0% line.  The peak is a point of x_curve.
figure_kde(res) ==
  [curves |-> [k \in 1..Len(res) |->
                 [name |-> res[k].name,
                  kde |-> gaussian_kde(res[k].relative_errors),
                  peak_marked |-> gaussian_kde(res[k].relative_errors) = "ok"]],
   zero_line |-> Zero]

OverlayInit ==
  /\ prog = "overlay_v5"
  /\ pc = "stats"
  /\ group = 1
  /\ n_experiments \in 0..MaxBatch
  /\ idx = 0
  /\ experiment = None
  /\ outcome = None
  /\ stdout = <<[ev |-> "group", i |-> 1]>>
  /\ n_saved = 0
  /\ experiments_in_group = <<>>
  /\ results = <<>>
  /\ all_relative_errors = <<>>
  /\ x_lim = None
  /\ ax_t = None
  /\ ax_kde = None

\* One pass of "for name, target, density, weights in experiments_in_group".
\* weights / density raises TypeError when weights is a Python list; nothing
\* catches it.
GroupStats ==
  /\ pc = "stats"
  /\ idx < n_experiments
  /\ \E e \in OverlayExperiments(group) :
       /\ experiments_in_group' = Append(experiments_in_group, e)
       /\ IF e.is_array
          THEN /\ results' = dict_setitem(results, results_entry(e))
               /\ all_relative_errors' =
                    all_relative_errors \o rel_errors(e.weights, e.density, e.target)
               /\ stdout' = Append(stdout, [ev |-> "process", i |-> idx + 1])
               /\ pc' = "stats"
          ELSE /\ stdout' = stdout \o <<[ev |-> "process", i |-> idx + 1],
                                         [ev |-> "traceback", i |-> idx + 1]>>
               /\ pc' = "crashed"
               /\ UNCHANGED <<results, all_relative_errors>>
  /\ idx' = idx + 1
  /\ UNCHANGED <<prog, n_experiments, experiment, outcome, n_saved, group,
                 x_lim, ax_t, ax_kde>>

\* After the loop: the shared x range, then figure A up to plt.savefig.
\* np.min of an empty list raises ValueError, ax_t.set_xlim raises
\* ValueError for a limit that is not finite; nothing catches either.
FigureA ==
  /\ pc = "stats"
  /\ idx = n_experiments
  /\ IF all_relative_errors = <<>>
     THEN /\ stdout' = Append(stdout, [ev |-> "traceback", i |-> 0])
          /\ pc' = "crashed"
          /\ UNCHANGED <<x_lim, ax_t, n_saved>>
     ELSE LET lim == overlay_x_lim(all_relative_errors, results)
          IN /\ x_lim' = lim
             /\ ax_t' = figure_t(results)
             /\ IF set_xlim_raises(lim.x_min, lim.x_max)
                THEN /\ stdout' = Append(stdout, [ev |-> "traceback", i |-> 0])
                     /\ pc' = "crashed"
                     /\ UNCHANGED n_saved
                ELSE /\ stdout' = Append(stdout, [ev |-> "saved_t", i |-> group])
                     /\ pc' = "figure_b"
                     /\ n_saved' = n_saved + 1
  /\ UNCHANGED <<prog, n_experiments, idx, experiment, outcome, group,
                 experiments_in_group, results, all_relative_errors, ax_kde>>

\* Figure B up to plt.savefig, and the return of generate_overlay_plots.
FigureB ==
  /\ pc = "figure_b"
  /\ ax_kde' = figure_kde(results)
  /\ stdout' = Append(stdout, [ev |-> "saved_kde", i |-> group])
  /\ n_saved' = n_saved + 1
  /\ pc' = "returned"
  /\ UNCHANGED <<prog, n_experiments, idx, experiment, outcome, group,
                 experiments_in_group, results, all_relative_errors, x_lim, ax_t>>

\* main calls generate_overlay_plots for the pipette group.
NextGroup ==
  /\ pc = "returned"
  /\ group = 1
  /\ group' = 2
  /\ n_experiments' \in 0..MaxBatch
  /\ idx' = 0
  /\ experiments_in_group' = <<>>
  /\ results' = <<>>
  /\ all_relative_errors' = <<>>
  /\ x_lim' = None
  /\ ax_t' = None
  /\ ax_kde' = None
  /\ stdout' = Append(stdout, [ev |-> "group", i |-> 2])
  /\ pc' = "stats"
  /\ UNCHANGED <<prog, experiment, outcome, n_saved>>

\* Both groups done: the closing print of main.
OverlayFinish ==
  /\ pc = "returned"
  /\ group = 2
  /\ stdout' = Append(stdout, [ev |-> "done", i |-> 0])
  /\ pc' = "done"
  /\ UNCHANGED <<prog, n_experiments, idx, experiment, outcome, n_saved, overlay_vars>>

OverlayNext == GroupStats \/ FigureA \/ FigureB \/ NextGroup \/ OverlayFinish

OverlaySpec == OverlayInit /\ [][OverlayNext]_vars

(***************************************************************************)
(* Claims.                                                                 *)
(***************************************************************************)
Events(kind) == SelectSeq(stdout, LAMBDA e : e.ev = kind)
Reported(i) == \E j \in 1..Len(stdout) : stdout[j] = [ev |-> "error", i |-> i]
Attempted(i) == \E j \in 1..Len(stdout) : stdout[j] = [ev |-> "analyze", i |-> i]

\* C1: in the single-instrument batch a failure of instrument i is caught
\* and reported by main (the step after a raise appends the error report
\* of i and returns to the loop), the instruments are attempted exactly
\* once each in list order whatever subset of them failed, and the batch
\* eventually reaches its completion step.
C1_BatchIsolation ==
  /\ [][pc = "raised" =>
          /\ pc' = "for"
          /\ stdout' = Append(stdout, [ev |-> "error", i |-> idx])]_vars
  /\ [](pc = "done" =>
          /\ Len(Events("analyze")) = n_experiments
          /\ \A j \in 1..n_experiments : Events("analyze")[j].i = j
          /\ Len(Events("done")) = 1)
  /\ <>(pc = "done")

\* A batch of two whose first instrument failed and was reported, whose
\* second was still attempted, and which completed.
C1_Witness ==
  /\ pc = "done"
  /\ n_experiments = 2
  /\ Reported(1)
  /\ Attempted(2)
  /\ ~Reported(2)

(***************************************************************************)
(* Vocabulary of the claims about one instrument's analysis.               *)
(***************************************************************************)
\* analyze_and_plot has returned or raised and its locals are in outcome.
Analyzed == pc \in {"returned", "raised"} /\ prog \in SingleProgs

\* The input contract: at least two weights, target and density positive.
Valid(e) == Len(e.weights) >= 2 /\ FLt(Zero, e.target) /\ FLt(Zero, e.density)

Constant(w) == \A i \in 1..Len(w) : w[i] = w[1]

Stats(o) ==
  <<o.calculated_volumes, o.mu, o.sigma, o.df, o.relative_error,
    o.t_statistic, o.p_value, o.x_min, o.x_max>>

\* The entry of the dict d under the key name.
Lookup(d, name) == d[CHOOSE k \in 1..Len(d) : d[k].name = name]

\* C3: for every instrument record with fewer than two weights, a target
\* volume that is not positive or a density that is not positive, the
\* analysis raises before anything is computed: no figure is created, none
\* is saved, and the call does not return normally.
C3_FailFast ==
  (Analyzed /\ ~Valid(experiment)) =>
     /\ pc = "raised"
     /\ ~outcome.figure_created
     /\ ~outcome.saved

\* C4: when gaussian_kde raises LinAlgError or ValueError for an instrument,
\* only the KDE curve and the KDE peak marker are missing: the t curve and
\* the mu and target lines are drawn, the figure is saved and no exception
\* leaves analyze_and_plot.
C4_KdeFailureSoft ==
  (Analyzed /\ prog = "kde_v2" /\ outcome.kde \in {"LinAlgError", "ValueError"}) =>
     /\ ~outcome.kde_curve_drawn
     /\ ~outcome.kde_peak_x.avail
     /\ outcome.t_curve_drawn
     /\ [label |-> "mu", x |-> outcome.mu] \in outcome.markers
     /\ [label |-> "target", x |-> experiment.target] \in outcome.markers
     /\ outcome.saved
     /\ pc = "returned"

\* C5: for every constant sample (all weights equal) of a valid record the
\* analysis returns normally with sigma exactly 0, a t statistic that is
\* NaN or infinite, no KDE, and a relative error that is 0 when the mean
\* equals the target.
C5_ConstantSample ==
  (Analyzed /\ Valid(experiment) /\ Constant(experiment.weights)) =>
     /\ pc = "returned"
     /\ IsZero(outcome.sigma)
     /\ IsNaN(outcome.t_statistic) \/ IsInf(outcome.t_statistic)
     /\ prog = "kde_v2" => outcome.kde \in {"LinAlgError", "ValueError"}
     /\ FEq(outcome.mu, experiment.target) => IsZero(outcome.relative_error)

\* C7: for every valid instrument with sigma > 0 whose figure is drawn,
\* every vertical reference line (mu, target_volume, trimmed mean, KDE peak,
\* mu +- k sigma) lies inside [x_min, x_max], the range the axis is limited
\* to.
C7_MarkersInDomain ==
  (Analyzed /\ pc = "returned" /\ Valid(experiment) /\ FLt(Zero, outcome.sigma)) =>
     \A mk \in outcome.markers :
        FLe(outcome.x_min, mk.x) /\ FLe(mk.x, outcome.x_max)

\* C9 as stated: for every sample of two weights or more whose mean volume
\* equals target_volume, t_statistic is 0 and p_value is 1.0.
C9_Original ==
  (Analyzed /\ Len(experiment.weights) >= 2
     /\ FEq(outcome.mu, experiment.target)) =>
     /\ IsZero(outcome.t_statistic)
     /\ outcome.p_value.exact /\ outcome.p_value.val = F(1)

\* C9, amended: for every sample of two weights or more whose mean volume
\* equals target_volume, t_statistic is 0 and p_value is 1.0 when sigma > 0,
\* and both are NaN when sigma = 0 (0 / 0); and in general, for sigma > 0,
\* t_statistic has the sign of mu - target and agrees with
\* (mu - target) / (sigma / sqrt(N)) within 4 units in the last place.
C9_MeanOnTarget ==
  (Analyzed /\ Len(experiment.weights) >= 2) =>
     /\ (FEq(outcome.mu, experiment.target) /\ FLt(Zero, outcome.sigma)) =>
           /\ IsZero(outcome.t_statistic)
           /\ outcome.p_value.exact /\ outcome.p_value.val = F(1)
     /\ (FEq(outcome.mu, experiment.target) /\ IsZero(outcome.sigma)) =>
           /\ IsNaN(outcome.t_statistic)
           /\ outcome.p_value.exact /\ IsNaN(outcome.p_value.val)
     /\ (IsFinite(outcome.mu) /\ FLt(Zero, outcome.sigma) /\ IsFinite(outcome.sigma)) =>
           LET t2 == FDiv(FSub(outcome.mu, experiment.target),
                          FDiv(outcome.sigma, FSqrt(F(outcome.n))))
           IN /\ FSign(outcome.t_statistic) = FSign(FSub(outcome.mu, experiment.target))
              /\ FLe(FAbs(FSub(outcome.t_statistic, t2)),
                     FMul(FAbs(t2), FRat(4, Pow2(Prec))))

\* A varying sample whose mean is the target: t = 0 was returned.
C9_Witness ==
  /\ Analyzed
  /\ Len(experiment.weights) >= 2
  /\ FEq(outcome.mu, experiment.target)
  /\ FLt(Zero, outcome.sigma)
  /\ IsZero(outcome.t_statistic)

\* C10: for every input, whatever its place in the batch, the volumes,
\* mean, sample standard deviation, degrees of freedom, relative error,
\* t statistic, p-value and plot range that the running script computed are
\* those analyze_and_plot of vol_v11 computes for that input and those
\* every run of analyze_and_plot of kde_v2 computes for it; the sample
\* standard deviation has the N - 1 divisor and df is N - 1.
C10_SameStatistics ==
  Analyzed =>
     /\ \A o \in ResultsOf(vol_v11_results, experiment) : Stats(o) = Stats(outcome)
     /\ \A o \in ResultsOf(kde_v2_results, experiment) : Stats(o) = Stats(outcome)
     /\ outcome.sigma = np_std(outcome.calculated_volumes, 1)
     /\ outcome.df = Len(experiment.weights) - 1

\* The second instrument of a batch, a varying sample, analysed by kde_v2.
C10_Witness ==
  /\ Analyzed
  /\ prog = "kde_v2"
  /\ idx = 2
  /\ Valid(experiment)
  /\ FLt(Zero, outcome.sigma)

\* The orderings of a sequence, and the ones that are sorted.
Perms(s) ==
  { [i \in 1..Len(s) |-> s[f[i]]] :
      f \in { g \in [1..Len(s) -> 1..Len(s)] :
                \A i, j \in 1..Len(s) : i # j => g[i] # g[j] } }

Sorted(b) == \A i \in 1..(Len(b) - 1) : FLe(b[i], b[i + 1])

\* The values np.mean can give for the sorted volumes without their
\* floor(N/6) smallest and floor(N/6) largest, in any order of summation.
MiddleMeans(vols) ==
  LET n == Len(vols)
      k == n \div 6
  IN UNION { { np_mean(q) : q \in Perms(SubSeq(b, k + 1, n - k)) } :
               b \in { p \in Perms(vols) : Sorted(p) } }

TrimmedLine(o) == \E m \in o.markers : m.label = "trimmed"

PBelow005(o) ==
  IF o.p_value.exact
  THEN ~IsNaN(o.p_value.val) /\ FLt(o.p_value.val, FRat(1, 20))
  ELSE FLt(FRat(TCrit1000(o.df), 1000), FAbs(o.t_statistic))

\* C13: for every analysed instrument the reported classification is
\* "significant" exactly when p_value < 0.05 and "not significant"
\* otherwise, a NaN p_value being "not significant"; and the t_statistic and
\* p_value kept for display are those ttest_1samp returned.
C13_Classification ==
  Analyzed =>
    /\ outcome.significant <=> PBelow005(outcome)
    /\ (outcome.p_value.exact /\ IsNaN(outcome.p_value.val)) => ~outcome.significant
    /\ LET tt == ttest_1samp(outcome.calculated_volumes, experiment.target)
       IN /\ outcome.t_statistic = tt.t_statistic
          /\ outcome.p_value = tt.p_value

\* A constant sample on target: sigma = 0, t and p are NaN, and the report
\* says "not significant".
C13_Witness ==
  /\ Analyzed
  /\ Len(experiment.weights) >= 2
  /\ IsZero(outcome.sigma)
  /\ IsNaN(outcome.t_statistic)
  /\ outcome.p_value.exact /\ IsNaN(outcome.p_value.val)
  /\ ~outcome.significant

(***************************************************************************)
(* Claims about the group overlay.                                        *)
(***************************************************************************)
\* generate_overlay_plots got as far as limiting the axes of figure A.
Overlaid == prog = "overlay_v5" /\ pc \in {"figure_b", "returned"}

\* C2: in the group overlay a failure while computing one instrument's
\* statistics is reported and the program goes on with the other
\* instruments and groups: it never ends the program.
C2_StatsFailureIsolated ==
  \A k \in 1..Len(experiments_in_group) :
     ~experiments_in_group[k].is_array =>
        /\ pc # "crashed"
        /\ \E j \in 1..Len(stdout) : stdout[j] = [ev |-> "error", i |-> k]

\* C6: once the shared range of a non-empty group of valid records is set,
\* it contains [mu_i - 4 sigma_i, mu_i + 4 sigma_i] of every instrument i of
\* the group, mu_i and sigma_i being the mean and sample standard deviation
\* of that instrument's relative errors.
C6_GroupDomainContains ==
  (Overlaid /\ \A k \in 1..Len(experiments_in_group) :
                  Valid(experiments_in_group[k])) =>
     \A k \in 1..Len(experiments_in_group) :
        LET own == results_entry(experiments_in_group[k])
        IN /\ FLe(x_lim.x_min, FSub(own.mu_err, FMul(F(4), own.sigma_err)))
           /\ FLe(FAdd(own.mu_err, FMul(F(4), own.sigma_err)), x_lim.x_max)

\* C8: for every instrument of a group, the mean, sample standard deviation
\* and degrees of freedom stored for it are those computed from its own
\* weights, density and target, the peak annotated on its t curve is at its
\* own mean relative error, and that mean equals the relative error
\* (mu - target) / target * 100 of the single-instrument analysis.
C8_OverlayKeepsStatistics ==
  Overlaid =>
     \A k \in 1..Len(experiments_in_group) :
        LET e == experiments_in_group[k]
            own == results_entry(e)
            stored == Lookup(results, e.name)
            single == analyze_and_plot_vol(e.target, e.density, e.weights)
        IN /\ stored.mu_err = own.mu_err
           /\ stored.sigma_err = own.sigma_err
           /\ stored.df = own.df
           /\ Lookup(ax_t.curves, e.name).peak_x = own.mu_err
           /\ own.mu_err = single.relative_error

\* The relative errors of one instrument of the group.
ErrorsOf(e) == rel_errors(e.weights, e.density, e.target)

\* C12: while and after the statistics loop runs without a crash, results
\* holds one entry per instrument passed so far, the k-th entry being the
\* statistics of the k-th instrument, also when two instruments share a
\* name; every instrument's relative errors are among the pooled values;
\* and each figure, once drawn, has one curve per instrument of the group.
C12_OneEntryPerInstrument ==
  (prog = "overlay_v5" /\ pc \in {"stats", "figure_b", "returned"}) =>
     /\ Len(results) = Len(experiments_in_group)
     /\ \A k \in 1..Len(experiments_in_group) :
          /\ results[k] = results_entry(experiments_in_group[k])
          /\ \A j \in 1..Len(ErrorsOf(experiments_in_group[k])) :
               \E l \in 1..Len(all_relative_errors) :
                  all_relative_errors[l] = ErrorsOf(experiments_in_group[k])[j]
     /\ ax_t # None => Len(ax_t.curves) = Len(experiments_in_group)
     /\ ax_kde # None => Len(ax_kde.curves) = Len(experiments_in_group)

=============================================================================
